---- MODULE Spec2Model ----
(***************************************************************************)
(* Delegated-OAuth calendar backend: credential lifecycle (acquire and     *)
(* refresh-on-demand), the Telegram authorization handshake and the        *)
(* stores they share.                                                      *)
(*                                                                         *)
(* Time is counted in minutes.  Tokens are numbered in the order the       *)
(* provider issues them, so a larger access token is a newer provider      *)
(* response.  Null stands for JavaScript null/undefined.  Store reads are  *)
(* taken to succeed; store writes and provider calls may fail.             *)
(***************************************************************************)
EXTENDS Integers, FiniteSets, Sequences, TLC

\* ------------------------------------------------------------ bounds
MaxTime == 2
MaxIssued == 4
TokenLife == 7
MaxSessions == 1
MaxSessionTicks == 1
MaxBusy == 2

\* ------------------------------------------------------------ constants
Null == 0
SkewBufferMin == 5
SessionLifeMin == 30
GranularityMin == 15

Procs == {"p1", "p2"}
\* tenant 1 is a direct ("chatgpt") tenant with a users row, tenant 2 a
\* channel-linked ("telegram") tenant with a telegram_users row
DirectTenant == 1
TelegramTenant == 2
\* the ids the store hands out: the two above and one not yet in use
TenantIds == {DirectTenant, TelegramTenant, 3}
Chats == {1, 2}
Codes == {"c1", "c2"}

VARIABLES
  now,               \* wall clock (new Date())
  users,             \* users table: google_access_token, google_refresh_token, token_expires_at
  tenant_tokens,     \* tenant_tokens table, keyed by tenant_id
  telegram_users,    \* telegram_users table: rows [id, chat, user_id]
  telegram_sessions, \* telegram_sessions table: rows [token, chat, expires_at, user_id]
  usedCodes,         \* authorization codes the provider has already exchanged
  resolved,          \* handshakes reported successful: [account, tenant]
  issued,            \* number of tokens the OAuth provider has issued so far
  pc,                \* position of each request
  path,              \* which entry point the request in flight runs
  reqTenant,         \* req.user.id / userId / telegramUserId of the request in flight
  tokenInfo,         \* what the request keeps of the row it loaded: refresh_token
  newTokens,         \* credentials returned by the provider
  refreshKind,       \* how refreshAccessToken ended for the request
  pending,           \* store updates of the request still to land
  cb,                \* code and state of the callback in flight, and the session it found
  outcome,           \* what the step just taken answered, and to which request
  slotRequest,       \* the availability request: tenant, window, duration, events of the day
  slotResult,        \* what getAvailableTimeSlots returned or threw for it
  bearer             \* the Authorization token of the request p handles or handled last

vars == <<now, users, tenant_tokens, telegram_users, telegram_sessions, usedCodes,
          resolved, issued, pc, path, reqTenant, tokenInfo, newTokens, refreshKind,
          pending, cb, outcome, slotRequest, slotResult, bearer>>

linking == <<telegram_users, telegram_sessions, usedCodes, resolved>>

handshake == <<linking, cb>>

availability == <<slotRequest, slotResult>>

\* ------------------------------------------------------------ rows
Row(a, r, e) == [exists |-> TRUE, access |-> a, refresh |-> r, expiry |-> e]
NoRow == [exists |-> FALSE, access |-> Null, refresh |-> Null, expiry |-> Null]
NoTokens == [access |-> Null, refresh |-> Null, expiry |-> Null]
NoCallback == [code |-> "none", state |-> "none", chat |-> Null, session |-> Null,
               tokens |-> NoTokens, user |-> Null]

\* no Authorization header, or one without a token after "Bearer"
NoToken == [present |-> FALSE, signed |-> FALSE, exp |-> Null,
            user_type |-> "none", userId |-> Null]

NoOutcome ==
  [kind |-> "none", status |-> 0, needsAuth |-> FALSE, authUrl |-> FALSE,
   error |-> "none"]
Proceed == [NoOutcome EXCEPT !.kind = "next"]
Respond(s, n, e) ==
  [kind |-> "response", status |-> s, needsAuth |-> n, authUrl |-> FALSE,
   error |-> e]
\* tenant.ts:193-197: { error, needsAuth: true, authUrl }
RespondReauth(e) == [Respond(401, TRUE, e) EXCEPT !.authUrl = TRUE]
Throw(e) == [NoOutcome EXCEPT !.kind = "throw", !.error = e]
Refuse(e) == [NoOutcome EXCEPT !.kind = "refuse", !.error = e]
Return == [NoOutcome EXCEPT !.kind = "return"]

\* the step just taken ended no request
NoResponse == [by |-> "none", path |-> "none", tenant |-> Null, code |-> "none",
               state |-> "none", chat |-> Null, session |-> Null, res |-> NoOutcome]

MiddlewarePaths == {"checkGoogleTokenValidity", "telegramAuthMiddleware"}

\* ------------------------------------------------------------ expiry tests
\* tenant.ts:200 / tenant.ts:307 / auth.ts:205
\*   expiry_date ? new Date() > new Date(expiry - 5 min) : true
IsTokenExpired_flipped(expiry, t) ==
  IF expiry # Null THEN t < expiry - SkewBufferMin ELSE TRUE
IsTokenExpired(expiry, t) ==
  IF expiry # Null THEN t > expiry - SkewBufferMin ELSE TRUE

\* authService.ts:528-533
\*   if (token_expires_at) { if (now > expiry - bufferTime) ... }
UserTokenExpired(expiry, t) ==
  expiry # Null /\ t > expiry - SkewBufferMin

\* tenant.ts:192, 298; eventService.ts:34-40: a row, with an access token
HasCredential_rowOnly(row) == row.exists
HasCredential(row) == row.exists /\ row.access # Null

\* tenant.ts:205, 312; authService.ts:536: if (!tokenInfo.refresh_token)
HasRefreshToken_always(row) == TRUE
HasRefreshToken(row) == row.refresh # Null

\* ------------------------------------------------------------ payloads
\* tenant.ts:226-231 (and 334-339): access_token and expiry_date always,
\* refresh_token only when the provider returned one
UpdatePayload_keepsExpiry(row, nt) ==
  [row EXCEPT !.access = nt.access,
              !.refresh = IF nt.refresh # Null THEN nt.refresh ELSE @]
UpdatePayload(row, nt) ==
  [row EXCEPT !.access = nt.access,
              !.expiry = nt.expiry,
              !.refresh = IF nt.refresh # Null THEN nt.refresh ELSE @]

\* authService.ts:562-568 and 575-581: refresh_token falls back to the one
\* the request loaded (user.google_refresh_token), not the one stored now
UserUpdatePayload(row, nt, loaded) ==
  [row EXCEPT !.access = nt.access,
              !.expiry = nt.expiry,
              !.refresh = IF nt.refresh # Null THEN nt.refresh ELSE loaded]

\* supabase .update(...).eq(key): changes the row when there is one, and is
\* no error when there is none
UpdateRow_everyRow(table, t, new) ==
  [u \in TenantIds |-> IF table[u].exists THEN new ELSE table[u]]
UpdateRow(table, t, new) ==
  [table EXCEPT ![t] = IF @.exists THEN new ELSE @]

\* authService.ts:607 refreshError.code === 400 || message.includes('invalid_grant')
IsInvalidGrant_never(kind) == FALSE
IsInvalidGrant(kind) == kind = "invalid_grant"

\* ------------------------------------------------------------ request steps
\* the request ends: what it loaded and received goes out of scope
FinishWith(p, name, chat, session, t, o) ==
  /\ pc' = [pc EXCEPT ![p] = "idle"]
  /\ outcome' = [by |-> p, path |-> name, tenant |-> t, code |-> "none",
                 state |-> "none", chat |-> chat, session |-> session, res |-> o]
  /\ refreshKind' = [refreshKind EXCEPT ![p] = "none"]
  /\ path' = [path EXCEPT ![p] = "none"]
  /\ reqTenant' = [reqTenant EXCEPT ![p] = Null]
  /\ tokenInfo' = [tokenInfo EXCEPT ![p] = Null]
  /\ newTokens' = [newTokens EXCEPT ![p] = NoTokens]
  /\ pending' = [pending EXCEPT ![p] = {}]

FinishFor(p, name, chat, t, o) == FinishWith(p, name, chat, Null, t, o)

Finish(p, name, t, o) == FinishFor(p, name, Null, t, o)

\* a request arrives at a free worker
Begin(p) == pc[p] = "idle"

\* the remote refresh call leaves the process: refreshAccessToken() is awaited
StartRefresh(p, name, t, row) ==
  /\ pc' = [pc EXCEPT ![p] = "refresh"]
  /\ path' = [path EXCEPT ![p] = name]
  /\ reqTenant' = [reqTenant EXCEPT ![p] = t]
  /\ tokenInfo' = [tokenInfo EXCEPT ![p] = row.refresh]
  /\ outcome' = NoResponse
  /\ UNCHANGED <<newTokens, pending, refreshKind>>

\* tenant.ts:186-211 (checkGoogleTokenValidity) and 292-318
\* (telegramAuthMiddleware): load the tenant_tokens row and decide
MiddlewareLoad(p, name, t) ==
  LET row == tenant_tokens[t] IN
  IF ~HasCredential(row)
    THEN Finish(p, name, t, RespondReauth("no_tokens"))
  ELSE IF ~IsTokenExpired(row.expiry, now)
    THEN Finish(p, name, t, Proceed)
  ELSE IF ~HasRefreshToken(row)
    THEN Finish(p, name, t, RespondReauth("expired_no_refresh"))
  ELSE StartRefresh(p, name, t, row)

\* tenant.ts:164-211
CheckGoogleTokenValidity(p, t) ==
  /\ Begin(p)
  /\ MiddlewareLoad(p, "checkGoogleTokenValidity", t)
  /\ UNCHANGED <<now, users, tenant_tokens, issued, handshake, availability, bearer>>

\* a telegram_users row: its id (the tenant), telegram_chat_id and user_id,
\* the users row it is linked to if any (database.ts:137-165)
TelegramUser(id, chat, user_id) == [id |-> id, chat |-> chat, user_id |-> user_id]

\* telegramService.ts:305-321: .eq(telegram_chat_id).single()
GetUserByTelegramId(chat) ==
  {u \in telegram_users : u.chat = chat}

\* tenant.ts:272-318: resolve the chat id, then the same credential test
TelegramAuthMiddleware(p, chat) ==
  /\ Begin(p)
  /\ LET found == GetUserByTelegramId(chat) IN
     IF Cardinality(found) # 1
       THEN Finish(p, "telegramAuthMiddleware", Null,
                   Respond(401, FALSE, "telegram_user_not_found"))
       ELSE MiddlewareLoad(p, "telegramAuthMiddleware",
                           (CHOOSE u \in found : TRUE).id)
  /\ UNCHANGED <<now, users, tenant_tokens, issued, handshake, availability, bearer>>

\* authService.ts:511-548
GetUserWithGoogleToken(p, t) ==
  LET user == users[t] IN
  /\ Begin(p)
  /\ IF ~user.exists
       THEN Finish(p, "getUserWithGoogleToken", t, Throw("user_not_found"))
     ELSE IF user.access = Null
       THEN Finish(p, "getUserWithGoogleToken", t, Throw("no_access_token"))
     ELSE IF ~UserTokenExpired(user.expiry, now)
       THEN Finish(p, "getUserWithGoogleToken", t, Return)
     ELSE IF ~HasRefreshToken(user)
       THEN Finish(p, "getUserWithGoogleToken", t, Throw("expired_no_refresh"))
     ELSE StartRefresh(p, "getUserWithGoogleToken", t, user)
  /\ UNCHANGED <<now, users, tenant_tokens, issued, handshake, availability, bearer>>

\* eventService.ts:25-53: load the credential for the calendar client
GetAuthorizedClient(p, t) ==
  LET row == tenant_tokens[t] IN
  /\ Begin(p)
  /\ IF ~row.exists
       THEN Finish(p, "getAuthorizedClient", t, Throw("tokens_not_found"))
     ELSE IF row.access = Null
       THEN Finish(p, "getAuthorizedClient", t, Throw("no_google_access_token"))
     ELSE Finish(p, "getAuthorizedClient", t, [Return EXCEPT !.error = "client"])
  /\ UNCHANGED <<now, users, tenant_tokens, issued, handshake, availability, bearer>>

\* calendarController.ts:76-123: the controller loads the credential with
\* its own getAuthorizedClient (6-21), then calendars.insert; an error whose
\* message has "authenticate" in it, or a 401 of the calendar, is answered
\* 401 with needsAuth, any other 500 (the row for the new calendar goes to
\* a table that is not part of the model)
CreateCalendar(p, t) ==
  LET row == tenant_tokens[t] IN
  /\ Begin(p)
  /\ IF ~row.exists \/ row.access = Null
       THEN Finish(p, "createCalendar", t,
                   Respond(401, TRUE, "google_authentication_required"))
       ELSE \E result \in {"created", "unauthorized", "failed"} :
              Finish(p, "createCalendar", t,
                IF result = "created" THEN Respond(201, FALSE, "none")
                ELSE IF result = "unauthorized"
                  THEN Respond(401, TRUE, "google_authentication_required")
                ELSE Respond(500, FALSE, "failed_to_create_calendar"))
  /\ UNCHANGED <<now, users, tenant_tokens, issued, handshake, availability, bearer>>

\* routes/index.ts:46, POST /calendars: telegramAuthMiddleware of auth.ts
\* (272-294) resolves the chat id of the header to req.user, through
\* TelegramController.getUserByTelegramId (unnamed/part_005:120-122) and
\* TelegramService.getUserByTelegramId, and calls next(); createCalendar
\* then takes the tenant from req.body.tenantId
\* (calendarController.ts:78) and loads that tenant's credential
PostCalendars(p, chat, tenantId) ==
  LET found == GetUserByTelegramId(chat)
      row == tenant_tokens[tenantId]
      answer(o) == FinishFor(p, "postCalendars", chat, tenantId, o) IN
  /\ Begin(p)
  /\ IF Cardinality(found) # 1
       THEN answer(Respond(401, FALSE, "telegram_user_not_found"))
     ELSE IF ~row.exists \/ row.access = Null
       THEN answer(Respond(401, TRUE, "google_authentication_required"))
     ELSE \E result \in {"created", "unauthorized", "failed"} :
            answer(IF result = "created" THEN Respond(201, FALSE, "none")
                   ELSE IF result = "unauthorized"
                     THEN Respond(401, TRUE, "google_authentication_required")
                   ELSE Respond(500, FALSE, "failed_to_create_calendar"))
  /\ UNCHANGED <<now, users, tenant_tokens, issued, handshake, availability, bearer>>

\* what the provider hands out on a successful token call: a new access
\* token with its expiry, and maybe a refresh token
ProviderTokens(withRefresh) ==
  [access |-> issued + 1,
   refresh |-> IF withRefresh THEN issued + 1 ELSE Null,
   expiry |-> now + TokenLife]

\* the provider answers refreshAccessToken() (tenant.ts:220, 328;
\* authService.ts:551)
RefreshSucceeds(p) ==
  /\ pc[p] = "refresh"
  /\ issued < MaxIssued
  /\ \E rotated \in BOOLEAN :
       newTokens' = [newTokens EXCEPT ![p] = ProviderTokens(rotated)]
  /\ issued' = issued + 1
  /\ refreshKind' = [refreshKind EXCEPT ![p] = "ok"]
  /\ pending' = [pending EXCEPT ![p] =
       IF path[p] = "getUserWithGoogleToken"
         THEN {"users", "tenant_tokens"} ELSE {"tenant_tokens"}]
  /\ pc' = [pc EXCEPT ![p] = "update"]
  /\ outcome' = NoResponse
  /\ UNCHANGED <<now, users, tenant_tokens, path, reqTenant, tokenInfo,
                 handshake, availability, bearer>>

\* the refresh call throws: tenant.ts:240-247, 355-362 answer every failure
\* alike; authService.ts:604-612 tells invalid_grant from the rest
RefreshFailureOutcome(name, kind) ==
  IF name \in MiddlewarePaths
    THEN RespondReauth("refresh_failed")
  ELSE IF IsInvalidGrant(kind)
    THEN Throw("invalid_refresh_token")
  ELSE Throw("refresh_failed")

RefreshFailures == {"invalid_grant", "network"}

RefreshFails(p, kind) ==
  /\ pc[p] = "refresh"
  /\ Finish(p, path[p], reqTenant[p], RefreshFailureOutcome(path[p], kind))
  /\ UNCHANGED <<now, users, tenant_tokens, issued, handshake, availability, bearer>>

\* tenant.ts:233-250 and 341-365: one update of tenant_tokens, then next()
MiddlewareUpdate(p) ==
  /\ pc[p] = "update"
  /\ path[p] \in MiddlewarePaths
  /\ \E ok \in BOOLEAN :
       IF ok
         THEN /\ tenant_tokens' = UpdateRow(tenant_tokens, reqTenant[p],
                    UpdatePayload(tenant_tokens[reqTenant[p]], newTokens[p]))
              /\ Finish(p, path[p], reqTenant[p], Proceed)
         ELSE /\ UNCHANGED tenant_tokens
              /\ Finish(p, path[p], reqTenant[p], RespondReauth("refresh_failed"))
  /\ UNCHANGED <<now, users, issued, handshake, availability, bearer>>

\* tenant.ts:233-250 and 341-365 with the handler behind it
\* (routes/index.ts:52-70): the same update, and next() enters the handler
\* of the request, which has the tenant in req.user
MiddlewareUpdateNext(p) ==
  /\ pc[p] = "update"
  /\ path[p] \in MiddlewarePaths
  /\ \E ok \in BOOLEAN :
       IF ok
         THEN /\ tenant_tokens' = UpdateRow(tenant_tokens, reqTenant[p],
                    UpdatePayload(tenant_tokens[reqTenant[p]], newTokens[p]))
              /\ pc' = [pc EXCEPT ![p] = "handler"]
              /\ outcome' = NoResponse
              /\ UNCHANGED <<path, reqTenant, tokenInfo, newTokens, refreshKind,
                             pending>>
         ELSE /\ UNCHANGED tenant_tokens
              /\ Finish(p, path[p], reqTenant[p], RespondReauth("refresh_failed"))
  /\ UNCHANGED <<now, users, issued, handshake, availability, bearer>>

\* eventService.ts:25-53, called by the handler the middleware let through
\* after a refresh: load the credential of req.user.id
HandlerGetAuthorizedClient(p) ==
  LET t == reqTenant[p]
      row == tenant_tokens[t] IN
  /\ pc[p] = "handler"
  /\ IF ~row.exists
       THEN Finish(p, "getAuthorizedClient", t, Throw("tokens_not_found"))
     ELSE IF row.access = Null
       THEN Finish(p, "getAuthorizedClient", t, Throw("no_google_access_token"))
     ELSE Finish(p, "getAuthorizedClient", t, [Return EXCEPT !.error = "client"])
  /\ UNCHANGED <<now, users, tenant_tokens, issued, handshake, availability, bearer>>

\* authService.ts:557-586: two updates issued together (Promise.all); they
\* land one at a time, in either order, and each may fail on its own
UserUpdate(p) ==
  /\ pc[p] = "update"
  /\ path[p] = "getUserWithGoogleToken"
  /\ \E table \in pending[p], ok \in BOOLEAN :
       /\ pending' = [pending EXCEPT ![p] = @ \ {table}]
       /\ IF ok
            THEN /\ UNCHANGED refreshKind
                 /\ IF table = "users"
                      THEN /\ users' = UpdateRow(users, reqTenant[p],
                                 UserUpdatePayload(users[reqTenant[p]],
                                                   newTokens[p], tokenInfo[p]))
                           /\ UNCHANGED tenant_tokens
                      ELSE /\ tenant_tokens' = UpdateRow(tenant_tokens, reqTenant[p],
                                 UserUpdatePayload(tenant_tokens[reqTenant[p]],
                                                   newTokens[p], tokenInfo[p]))
                           /\ UNCHANGED users
            ELSE /\ refreshKind' = [refreshKind EXCEPT ![p] = "update_error"]
                 /\ UNCHANGED <<users, tenant_tokens>>
  /\ outcome' = NoResponse
  /\ UNCHANGED <<now, issued, pc, path, reqTenant, tokenInfo,
                 newTokens, handshake, availability, bearer>>

\* authService.ts:586-612: both updates are back; any error is rethrown by
\* the catch as a refresh failure
UserUpdateDone(p) ==
  /\ pc[p] = "update"
  /\ path[p] = "getUserWithGoogleToken"
  /\ pending[p] = {}
  /\ Finish(p, path[p], reqTenant[p],
            IF refreshKind[p] = "update_error"
              THEN RefreshFailureOutcome(path[p], refreshKind[p])
              ELSE Return)
  /\ UNCHANGED <<now, users, tenant_tokens, issued, handshake, availability, bearer>>

Tick ==
  /\ now < MaxTime
  /\ now' = now + 1
  /\ outcome' = NoResponse
  /\ UNCHANGED <<users, tenant_tokens, issued, pc, path, reqTenant, tokenInfo,
                 newTokens, refreshKind, pending, handshake, availability, bearer>>

\* ------------------------------------------------------------ handshake
acquireVars == <<users, path, reqTenant, tokenInfo, newTokens, refreshKind, pending>>

\* the state parameter the callback receives: not JSON, JSON of another
\* type, or the JSON generateTelegramOAuthUrl built for a chat and a session
MalformedState == [type |-> "malformed", chat |-> Null, token |-> Null]
OtherState == [type |-> "other", chat |-> Null, token |-> Null]
OAuthState(chat, token) == [type |-> "telegram_oauth", chat |-> chat, token |-> token]
States ==
  {MalformedState, OtherState}
    \cup {OAuthState(chat, token) : chat \in Chats, token \in 1..MaxSessions}

\* the request ends: the callback's locals go out of scope with it
FinishCallback(p, code, state, chat, session, o) ==
  /\ pc' = [pc EXCEPT ![p] = "idle"]
  /\ outcome' = [by |-> p, path |-> "handleTelegramOAuthCallback",
                 tenant |-> cb[p].user, code |-> code, state |-> state,
                 chat |-> chat, session |-> session, res |-> o]
  /\ cb' = [cb EXCEPT ![p] = NoCallback]
  /\ UNCHANGED <<path, reqTenant, tokenInfo, newTokens, refreshKind, pending>>

\* the callback goes on to its next await
CallbackStep(p, next, locals) ==
  /\ pc' = [pc EXCEPT ![p] = next]
  /\ cb' = [cb EXCEPT ![p] = locals]
  /\ outcome' = NoResponse
  /\ UNCHANGED <<path, reqTenant, tokenInfo, newTokens, refreshKind, pending>>

\* telegramService.ts:42-52: the row of a new session, good for 30 minutes
NewSession_noLifetime(token, chat, t) ==
  [token |-> token, chat |-> chat, expires_at |-> t, user_id |-> Null]
NewSession(token, chat, t) ==
  [token |-> token, chat |-> chat, expires_at |-> t + SessionLifeMin,
   user_id |-> Null]

\* telegramService.ts:34: crypto.randomBytes(32), a token that no stored
\* session has
FreeTokens == (1..MaxSessions) \ {x.token : x \in telegram_sessions}

\* telegramService.ts:32-102: store a session, then return the URL whose
\* state has the chat id and the session token (59-63); the shortener falls
\* back on the URL it was given (eventService.ts:954-957)
GenerateTelegramOAuthUrl(p, chat) ==
  /\ Begin(p)
  /\ FreeTokens # {}
  /\ \E ok \in BOOLEAN :
       IF ok
         THEN LET token == CHOOSE k \in FreeTokens : \A j \in FreeTokens : k <= j IN
              /\ telegram_sessions' =
                   telegram_sessions \cup {NewSession(token, chat, now)}
              /\ FinishWith(p, "generateTelegramOAuthUrl", chat, token, Null,
                            [Return EXCEPT !.error = "auth_url"])
         ELSE /\ UNCHANGED telegram_sessions
              /\ Finish(p, "generateTelegramOAuthUrl", Null,
                        Throw("failed_to_create_session"))
  /\ UNCHANGED <<resolved, now, users, tenant_tokens, telegram_users, usedCodes, issued, cb,
                 availability, bearer>>

\* telegramService.ts:116-123 (telegramController.ts:86-93):
\*   .eq(telegram_chat_id).eq(session_token).gt(expires_at, now).single()
ValidSessions_atExpiry(chat, token, t) ==
  {x \in telegram_sessions : x.chat = chat /\ x.token = token /\ x.expires_at >= t}
ValidSessions(chat, token, t) ==
  {x \in telegram_sessions : x.chat = chat /\ x.token = token /\ x.expires_at > t}

\* telegramService.ts:107-127: parse the state and look the session up
HandleTelegramOAuthCallback(p, code, state) ==
  /\ Begin(p)
  /\ IF state.type = "malformed"
       THEN FinishCallback(p, code, state.type, Null, Null, Throw("state_not_json"))
     ELSE IF state.type # "telegram_oauth"
       THEN FinishCallback(p, code, state.type, Null, Null,
                           Throw("invalid_state_type"))
     ELSE LET found == ValidSessions(state.chat, state.token, now) IN
          IF Cardinality(found) # 1
            THEN FinishCallback(p, code, state.type, state.chat, state.token,
                                Throw("invalid_or_expired_session"))
            ELSE CallbackStep(p, "exchange",
                   [NoCallback EXCEPT !.code = code, !.state = state.type,
                                      !.chat = state.chat,
                                      !.session = state.token])
  /\ UNCHANGED <<resolved, now, users, tenant_tokens, telegram_users, telegram_sessions,
                 usedCodes, issued, availability, bearer>>

\* telegramService.ts:130-140: getToken(code); the provider honours an
\* authorization code once, and its answer holds a refresh token or not
ExchangeCodeWith(p, withRefresh) ==
  /\ pc[p] = "exchange"
  /\ IF cb[p].code \in usedCodes
       THEN /\ FinishCallback(p, cb[p].code, cb[p].state, cb[p].chat, cb[p].session, Throw("invalid_grant"))
            /\ UNCHANGED <<usedCodes, issued>>
       ELSE /\ issued < MaxIssued
            /\ usedCodes' = usedCodes \cup {cb[p].code}
            /\ issued' = issued + 1
            /\ CallbackStep(p, "userinfo",
                 [cb[p] EXCEPT !.tokens = ProviderTokens(withRefresh)])
  /\ UNCHANGED <<resolved, now, users, tenant_tokens, telegram_users, telegram_sessions,
                 availability, bearer>>

\* the consent asked for (access_type offline, prompt consent,
\* telegramService.ts:88-94) comes with a refresh token
ExchangeCode(p) == ExchangeCodeWith(p, TRUE)

\* telegramService.ts:142-149: userinfo.get() answers with the Google account
\* that gave the consent the code stands for
GoogleUser(code) == IF code = "c1" THEN "g1" ELSE "g2"

\* telegramService.ts:142-160: userinfo.get(), then the telegram_users row
\* of the chat (.single(): one row or none)
FindTelegramUser(p) ==
  /\ pc[p] = "userinfo"
  /\ \E ok \in BOOLEAN :
       IF ~ok
         THEN FinishCallback(p, cb[p].code, cb[p].state, cb[p].chat, cb[p].session, Throw("userinfo_failed"))
         ELSE LET found == GetUserByTelegramId(cb[p].chat) IN
              CallbackStep(p, "link",
                [cb[p] EXCEPT !.user = IF Cardinality(found) = 1
                                         THEN (CHOOSE u \in found : TRUE).id
                                         ELSE Null])
  /\ UNCHANGED <<resolved, now, users, tenant_tokens, telegram_users, telegram_sessions,
                 usedCodes, issued, availability, bearer>>

\* ids the store has not handed out yet
FreeIds ==
  TenantIds \ ({DirectTenant} \cup {u.id : u \in telegram_users})

\* telegramService.ts:164-200: insert the telegram_users row, or update the
\* one found; either write may fail
LinkTelegramUser(p) ==
  /\ pc[p] = "link"
  /\ \E ok \in BOOLEAN :
       IF ~ok
         THEN /\ FinishCallback(p, cb[p].code, cb[p].state, cb[p].chat, cb[p].session, Throw("telegram_user_write_failed"))
              /\ UNCHANGED telegram_users
       ELSE IF cb[p].user = Null
         THEN /\ FreeIds # {}
              /\ LET id == CHOOSE i \in FreeIds : \A j \in FreeIds : i <= j IN
                 /\ telegram_users' = telegram_users \cup 
                      {TelegramUser(id, cb[p].chat, Null)}
                 /\ CallbackStep(p, "mark", [cb[p] EXCEPT !.user = id])
         ELSE /\ UNCHANGED telegram_users
              /\ CallbackStep(p, "mark", cb[p])
  /\ UNCHANGED <<resolved, now, users, tenant_tokens, telegram_sessions, usedCodes, issued,
                 availability, bearer>>

\* telegramService.ts:202-209: the session gets the user_id; the result of
\* the update is not looked at
MarkSession(p) ==
  /\ pc[p] = "mark"
  /\ \E ok \in BOOLEAN :
       telegram_sessions' =
         IF ok
           THEN {IF x.token = cb[p].session
                   THEN [x EXCEPT !.user_id = cb[p].user] ELSE x :
                 x \in telegram_sessions}
           ELSE telegram_sessions
  /\ CallbackStep(p, "store", cb[p])
  /\ UNCHANGED <<resolved, now, users, tenant_tokens, telegram_users, usedCodes, issued,
                 availability, bearer>>

\* supabase .upsert(row, {onConflict: 'tenant_id'}): a new row, or the
\* columns sent written over the row there is
UpsertRow(table, t, nt) ==
  [table EXCEPT ![t] = IF @.exists THEN UpdatePayload(@, nt)
                                   ELSE Row(nt.access, nt.refresh, nt.expiry)]

\* telegramService.ts:211-229: upsert the credential (result not looked at)
\* and report success
StoreTokens(p) ==
  /\ pc[p] = "store"
  /\ \E ok \in BOOLEAN :
       tenant_tokens' =
         IF ok THEN UpsertRow(tenant_tokens, cb[p].user, cb[p].tokens)
               ELSE tenant_tokens
  /\ resolved' = resolved \cup
       {[account |-> GoogleUser(cb[p].code), tenant |-> cb[p].user]}
  /\ FinishCallback(p, cb[p].code, cb[p].state, cb[p].chat, cb[p].session,
                    [Return EXCEPT !.error = "authorized"])
  /\ UNCHANGED <<now, users, telegram_users, telegram_sessions, usedCodes, issued,
                 availability, bearer>>

\* telegramService.ts:329-332: .delete().lt("expires_at", now)
ExpiredSessions_atExpiry(t) == {x \in telegram_sessions : x.expires_at <= t}
ExpiredSessions(t) == {x \in telegram_sessions : x.expires_at < t}

\* telegramService.ts:326-341: the sweep; an error of the delete is logged
\* and nothing is thrown
CleanExpiredSessions(p) ==
  /\ Begin(p)
  /\ \E ok \in BOOLEAN :
       /\ telegram_sessions' =
            IF ok THEN telegram_sessions \ ExpiredSessions(now)
                  ELSE telegram_sessions
       /\ Finish(p, "cleanExpiredSessions", Null,
                 [Return EXCEPT !.error = IF ok THEN "cleaned" ELSE "clean_failed"])
  /\ UNCHANGED <<resolved, now, users, tenant_tokens, telegram_users, usedCodes,
                 issued, cb, availability, bearer>>

\* the clock of the handshake moves by a session lifetime at a time
HandshakeTick ==
  /\ now + SessionLifeMin <= 1 + MaxSessionTicks * SessionLifeMin
  /\ now' = now + SessionLifeMin
  /\ outcome' = NoResponse
  /\ UNCHANGED <<resolved, users, tenant_tokens, telegram_users, telegram_sessions, usedCodes,
                 issued, pc, cb, acquireVars, availability, bearer>>

\* ------------------------------------------------------------ direct handshake
\* authService.ts:398-406: the row the direct callback writes to
\* tenant_tokens; without a refresh token from the provider it takes the
\* one of the users row (finalUser.google_refresh_token)
TenantTokenData(nt, finalRefresh) ==
  Row(nt.access,
      IF nt.refresh # Null THEN nt.refresh ELSE finalRefresh,
      nt.expiry)

\* eventService.ts:27-52: the credential the calendar client is given is
\* the three columns of the row as they are stored
LoadCredential(row) ==
  [access |-> row.access, refresh |-> row.refresh, expiry |-> row.expiry]

\* the state parameter of the direct callback: none (authController.ts:157),
\* or any string
NoState == [type |-> "none", chat |-> Null, token |-> Null]
DirectStates == {NoState} \cup States

\* the direct callback ends: its locals go out of scope with it
FinishDirect(p, t, state, o) ==
  /\ pc' = [pc EXCEPT ![p] = "idle"]
  /\ outcome' = [by |-> p, path |-> "handleGoogleOAuthCallback", tenant |-> t,
                 code |-> "none", state |-> state, chat |-> Null,
                 session |-> Null, res |-> o]
  /\ cb' = [cb EXCEPT ![p] = NoCallback]
  /\ refreshKind' = [refreshKind EXCEPT ![p] = "none"]
  /\ path' = [path EXCEPT ![p] = "none"]
  /\ reqTenant' = [reqTenant EXCEPT ![p] = Null]
  /\ tokenInfo' = [tokenInfo EXCEPT ![p] = Null]
  /\ newTokens' = [newTokens EXCEPT ![p] = NoTokens]
  /\ pending' = [pending EXCEPT ![p] = {}]

\* authService.ts:79-148: a state of type telegram_oauth is sent back with
\* success false; any other state, JSON or not, goes on as none would:
\* getToken(code) and userinfo.get(); the account is that of tenant t, and
\* the provider sends a refresh token or not
HandleGoogleOAuthCallback(p, t, state) ==
  /\ Begin(p)
  /\ IF state.type = "telegram_oauth"
       THEN /\ FinishDirect(p, t, state.type, Refuse("telegram_oauth_detected"))
            /\ UNCHANGED issued
       ELSE \E ok \in BOOLEAN :
         IF ~ok
           THEN /\ FinishDirect(p, t, state.type, Throw("authentication_failed"))
                /\ UNCHANGED issued
           ELSE /\ issued < MaxIssued
                /\ issued' = issued + 1
                /\ \E withRefresh \in BOOLEAN :
                     newTokens' = [newTokens EXCEPT ![p] = ProviderTokens(withRefresh)]
                /\ pc' = [pc EXCEPT ![p] = "profile"]
                /\ path' = [path EXCEPT ![p] = "handleGoogleOAuthCallback"]
                /\ reqTenant' = [reqTenant EXCEPT ![p] = t]
                /\ cb' = [cb EXCEPT ![p] = [NoCallback EXCEPT !.state = state.type]]
                /\ outcome' = NoResponse
                /\ UNCHANGED <<tokenInfo, refreshKind, pending>>
  /\ UNCHANGED <<now, users, tenant_tokens, linking, availability, bearer>>

\* authService.ts:150-393: look the user up; insert the profile with the
\* tokens (289-301), or update it, the refresh token only when one came
\* (346-361); finalUser is the row as written
UpdateUserProfile(p) ==
  LET t == reqTenant[p] IN
  /\ pc[p] = "profile"
  /\ \E ok \in BOOLEAN :
       IF ~ok
         THEN /\ FinishDirect(p, t, cb[p].state, Throw("authentication_failed"))
              /\ UNCHANGED users
         ELSE /\ users' = [users EXCEPT ![t] =
                   IF @.exists THEN UpdatePayload(@, newTokens[p])
                   ELSE Row(newTokens[p].access, newTokens[p].refresh,
                            newTokens[p].expiry)]
              /\ tokenInfo' = [tokenInfo EXCEPT ![p] = users'[t].refresh]
              /\ pc' = [pc EXCEPT ![p] = "tokens"]
              /\ outcome' = NoResponse
              /\ UNCHANGED <<path, reqTenant, newTokens, refreshKind, pending, cb>>
  /\ UNCHANGED <<now, tenant_tokens, issued, linking, availability, bearer>>

\* authService.ts:395-493: update or insert the tenant_tokens row; a
\* failure is logged only, and the callback reports success either way
StoreTenantTokens(p) ==
  LET t == reqTenant[p] IN
  /\ pc[p] = "tokens"
  /\ \E ok \in BOOLEAN :
       tenant_tokens' =
         IF ok THEN [tenant_tokens EXCEPT ![t] =
                       TenantTokenData(newTokens[p], tokenInfo[p])]
               ELSE tenant_tokens
  /\ FinishDirect(p, t, cb[p].state, [Return EXCEPT !.error = "authenticated"])
  /\ UNCHANGED <<now, users, issued, linking, availability, bearer>>

\* ------------------------------------------------------------ disconnect
\* telegramService.ts:346-396: the telegram_users row linked to the user
\* (.eq(user_id).single()) gets user_id null; then the sessions and the
\* tenant_tokens row of that telegram user are deleted, results not looked at
DisconnectTelegram(p, userId) ==
  LET found == {u \in telegram_users : u.user_id = userId} IN
  /\ Begin(p)
  /\ IF Cardinality(found) # 1
       THEN /\ Finish(p, "disconnectTelegram", userId,
                      Throw("no_linked_telegram_account"))
            /\ UNCHANGED <<telegram_users, telegram_sessions, tenant_tokens>>
       ELSE LET tu == CHOOSE u \in found : TRUE IN
            \E ok \in BOOLEAN :
              IF ~ok
                THEN /\ Finish(p, "disconnectTelegram", userId,
                               Throw("failed_to_disconnect"))
                     /\ UNCHANGED <<telegram_users, telegram_sessions, tenant_tokens>>
                ELSE /\ telegram_users' =
                          (telegram_users \ {tu}) \cup {[tu EXCEPT !.user_id = Null]}
                     /\ \E deleted \in BOOLEAN :
                          telegram_sessions' =
                            IF deleted
                              THEN {x \in telegram_sessions : x.user_id # tu.id}
                              ELSE telegram_sessions
                     /\ \E deleted \in BOOLEAN :
                          tenant_tokens' =
                            IF deleted THEN [tenant_tokens EXCEPT ![tu.id] = NoRow]
                                       ELSE tenant_tokens
                     /\ Finish(p, "disconnectTelegram", userId,
                               [Return EXCEPT !.error = "disconnected"])
  /\ UNCHANGED <<now, users, issued, usedCodes, resolved, cb, availability, bearer>>

\* telegramController.ts:379-413, the handler of POST /telegram/disconnect:
\* telegram_chat_id of the users row of req.user.id is set to null (a
\* column that is not part of the model; no row is no error), then the
\* sessions of that user are deleted, result not looked at
TelegramControllerDisconnect(p, userId) ==
  /\ Begin(p)
  /\ \E ok \in BOOLEAN :
       IF ~ok
         THEN /\ Finish(p, "telegramControllerDisconnect", userId,
                        Respond(500, FALSE, "failed_to_disconnect"))
              /\ UNCHANGED telegram_sessions
         ELSE /\ \E deleted \in BOOLEAN :
                   telegram_sessions' =
                     IF deleted
                       THEN {x \in telegram_sessions : x.user_id # userId}
                       ELSE telegram_sessions
              /\ Finish(p, "telegramControllerDisconnect", userId,
                        Respond(200, FALSE, "disconnected"))
  /\ UNCHANGED <<now, users, tenant_tokens, issued, telegram_users, usedCodes,
                 resolved, cb, availability, bearer>>

\* authService.ts:699-706: what disconnectGoogle writes over the users row
ClearedUser(row) == Row(Null, Null, Null)

\* authService.ts:677-732: the token is revoked (a failure is only warned
\* of), then the users row is updated to null tokens and the tenant_tokens
\* row deleted, both awaited together; an error of either is thrown, no
\* row is no error
DisconnectGoogle(p, t) ==
  /\ Begin(p)
  /\ \E usersOk \in BOOLEAN, tokensOk \in BOOLEAN :
       /\ users' = IF usersOk THEN UpdateRow(users, t, ClearedUser(users[t]))
                   ELSE users
       /\ tenant_tokens' = IF tokensOk THEN [tenant_tokens EXCEPT ![t] = NoRow]
                           ELSE tenant_tokens
       /\ Finish(p, "disconnectGoogle", t,
                 IF usersOk /\ tokensOk
                   THEN [Return EXCEPT !.error = "disconnected"]
                   ELSE Throw("failed_to_clear_tokens"))
  /\ UNCHANGED <<now, issued, handshake, availability, bearer>>

\* ------------------------------------------------------------ authenticateToken
\* the tokens a request may bring: signed with JWT_SECRET or not, with an
\* exp claim, a user_type ("chatgpt", or none with or without an email
\* claim) and a userId
JwtExpiries == {1, 3}
BearerTokens ==
  {NoToken} \cup
    [present : {TRUE}, signed : BOOLEAN, exp : JwtExpiries,
     user_type : {"chatgpt", "email", "none"}, userId : TenantIds]

\* auth.ts:44-47: jwt.verify(token, secret): the signature, then the exp
\* claim against the clock
JwtVerify_noExpiry(token, t) ==
  IF ~token.signed THEN "JsonWebTokenError" ELSE "ok"
JwtVerify(token, t) ==
  IF ~token.signed THEN "JsonWebTokenError"
  ELSE IF t >= token.exp THEN "TokenExpiredError"
  ELSE "ok"

\* auth.ts:53-102: users by id for a chatgpt or email token, telegram_users
\* by id for any other; .single()
TokenUserExists_anyone(token) == TRUE
TokenUserExists(token) ==
  IF token.user_type \in {"chatgpt", "email"}
    THEN users[token.userId].exists
    ELSE \E u \in telegram_users : u.id = token.userId

\* auth.ts:32-47, 113-132: no token, or one that jwt.verify throws on, is
\* answered 401 with needsAuth; a verified one goes on to the lookup
AuthenticateToken(p, token) ==
  /\ Begin(p)
  /\ bearer' = [bearer EXCEPT ![p] = token]
  /\ IF ~token.present
       THEN Finish(p, "authenticateToken", Null, Respond(401, TRUE, "access_token_required"))
     ELSE IF JwtVerify(token, now) = "JsonWebTokenError"
       THEN Finish(p, "authenticateToken", Null, Respond(401, TRUE, "invalid_token"))
     ELSE IF JwtVerify(token, now) = "TokenExpiredError"
       THEN Finish(p, "authenticateToken", Null, Respond(401, TRUE, "token_expired"))
     ELSE /\ pc' = [pc EXCEPT ![p] = "lookup"]
          /\ path' = [path EXCEPT ![p] = "authenticateToken"]
          /\ outcome' = NoResponse
          /\ UNCHANGED <<reqTenant, tokenInfo, newTokens, refreshKind, pending>>
  /\ UNCHANGED <<now, users, tenant_tokens, issued, handshake, availability>>

\* auth.ts:53-112: the lookup; an error or no row is answered 401 with
\* needsAuth, a row becomes req.user and req.tenantId and next() is called
FindTokenUser_creatingUser(p) ==
  /\ pc[p] = "lookup"
  /\ users' = [users EXCEPT ![bearer[p].userId] =
                 IF @.exists THEN @ ELSE Row(Null, Null, Null)]
  /\ Finish(p, "authenticateToken", bearer[p].userId, Proceed)
  /\ UNCHANGED <<now, tenant_tokens, issued, handshake, availability, bearer>>
FindTokenUser(p) ==
  /\ pc[p] = "lookup"
  /\ \E ok \in BOOLEAN :
       IF ok /\ TokenUserExists(bearer[p])
         THEN Finish(p, "authenticateToken", bearer[p].userId, Proceed)
         ELSE Finish(p, "authenticateToken", Null,
                     Respond(401, TRUE, "invalid_token_or_user_not_found"))
  /\ UNCHANGED <<now, users, tenant_tokens, issued, handshake, availability, bearer>>

\* auth.ts:272-294, telegramAuthMiddleware: no x-telegram-chat-id header is
\* answered 401; the telegram_users row of the chat id becomes req.user and
\* next() is called; a failed lookup is answered 401 with the error's message
AuthTelegramAuthMiddleware(p, chat) ==
  /\ Begin(p)
  /\ IF chat = Null
       THEN FinishFor(p, "authTelegramAuthMiddleware", chat, Null,
                      Respond(401, FALSE, "telegram_chat_id_required"))
     ELSE \E ok \in BOOLEAN :
            IF ok /\ Cardinality(GetUserByTelegramId(chat)) = 1
              THEN \E u \in GetUserByTelegramId(chat) :
                     FinishFor(p, "authTelegramAuthMiddleware", chat, u.id, Proceed)
              ELSE FinishFor(p, "authTelegramAuthMiddleware", chat, Null,
                             Respond(401, FALSE, "failed_to_get_telegram_user"))
  /\ UNCHANGED <<now, users, tenant_tokens, issued, handshake, availability, bearer>>

\* ------------------------------------------------------------ availability
\* times are minutes of the requested day
Interval(s, e) == [start |-> s, end |-> e]

NoSlotRequest ==
  [tenant |-> Null, date |-> FALSE, startOfDay |-> 0, endOfDay |-> 0,
   duration |-> 0, busy |-> <<>>]
NoSlotResult == [kind |-> "none", error |-> "none", slots |-> <<>>]

\* eventService.ts:839-843: the test one event is put to
\*   (currentTime >= busy.start && currentTime < busy.end) ||
\*   (slotEnd > busy.start && slotEnd <= busy.end) ||
\*   (currentTime <= busy.start && slotEnd >= busy.end)
Overlaps_closed(currentTime, slotEnd, busy) ==
  currentTime <= busy.end /\ slotEnd >= busy.start
Overlaps(currentTime, slotEnd, busy) ==
  \/ currentTime >= busy.start /\ currentTime < busy.end
  \/ slotEnd > busy.start /\ slotEnd <= busy.end
  \/ currentTime <= busy.start /\ slotEnd >= busy.end

\* eventService.ts:839: !busySlots.some(...)
IsAvailable_firstOnly(currentTime, slotEnd, busySlots) ==
  busySlots = <<>> \/ ~Overlaps(currentTime, slotEnd, busySlots[1])
IsAvailable(currentTime, slotEnd, busySlots) ==
  ~\E i \in 1..Len(busySlots) : Overlaps(currentTime, slotEnd, busySlots[i])

\* eventService.ts:836: while (currentTime + slotDuration <= endOfDay)
InsideWindow_startOnly(currentTime, slotDuration, endOfDay) ==
  currentTime <= endOfDay
InsideWindow(currentTime, slotDuration, endOfDay) ==
  currentTime + slotDuration <= endOfDay

\* eventService.ts:855: the next candidate starts 15 minutes later
NextCandidate_double(currentTime) == currentTime + 2 * GranularityMin
NextCandidate(currentTime) == currentTime + GranularityMin

\* eventService.ts:831-856: the loop over the candidates
RECURSIVE AvailableSlots(_, _, _, _)
AvailableSlots(currentTime, slotDuration, endOfDay, busySlots) ==
  IF ~InsideWindow(currentTime, slotDuration, endOfDay) THEN <<>>
  ELSE LET slotEnd == currentTime + slotDuration IN
       (IF IsAvailable(currentTime, slotEnd, busySlots)
          THEN <<Interval(currentTime, slotEnd)>> ELSE <<>>)
         \o AvailableSlots(NextCandidate(currentTime), slotDuration,
                           endOfDay, busySlots)

\* eventService.ts:793-868: the client for the tenant, the date, the events
\* of the window from the calendar, then the slots; any failure is rethrown
GetAvailableTimeSlots ==
  LET r == slotRequest
      row == tenant_tokens[r.tenant] IN
  /\ r.tenant # Null
  /\ slotResult.kind = "none"
  /\ \E listed \in BOOLEAN :
       slotResult' =
         IF ~row.exists
           THEN [NoSlotResult EXCEPT !.kind = "throw", !.error = "tokens_not_found"]
         ELSE IF row.access = Null
           THEN [NoSlotResult EXCEPT !.kind = "throw",
                                     !.error = "no_google_access_token"]
         ELSE IF ~r.date
           THEN [NoSlotResult EXCEPT !.kind = "throw", !.error = "date_required"]
         ELSE IF ~listed
           THEN [NoSlotResult EXCEPT !.kind = "throw", !.error = "events_list_failed"]
         ELSE [NoSlotResult EXCEPT
                 !.kind = "slots",
                 !.slots = AvailableSlots(r.startOfDay, r.duration,
                                          r.endOfDay, r.busy)]
  /\ UNCHANGED <<now, users, tenant_tokens, issued, pc, outcome, slotRequest, bearer,
                 handshake, acquireVars>>

\* ------------------------------------------------------------ specification
\* what the store can hold for a tenant: no row; a row emptied by a
\* disconnect; a credential with or without a refresh token, and without
\* expiry, about to enter the 5 minute buffer, or a minute away from it
InitCreds(a) ==
  {NoRow, Row(Null, Null, Null)}
    \cup {Row(a, r, e) : r \in {Null, a}, e \in {Null, 6, 7}}

\* a credential that no acquire path can refresh: it has no refresh token
StaticCreds(a) == Row(a, Null, 6)

InitWorkers ==
  /\ pc = [p \in Procs |-> "idle"]
  /\ path = [p \in Procs |-> "none"]
  /\ reqTenant = [p \in Procs |-> Null]
  /\ tokenInfo = [p \in Procs |-> Null]
  /\ newTokens = [p \in Procs |-> NoTokens]
  /\ refreshKind = [p \in Procs |-> "none"]
  /\ pending = [p \in Procs |-> {}]
  /\ cb = [p \in Procs |-> NoCallback]
  /\ bearer = [p \in Procs |-> NoToken]
  /\ outcome = NoResponse

\* no request is in flight, and none for availability either
InitRequests ==
  /\ InitWorkers
  /\ slotRequest = NoSlotRequest
  /\ slotResult = NoSlotResult

\* both tenants have completed a handshake; the credential of one of them
\* is in any of the shapes above
Init ==
  /\ now = 1
  /\ issued = 2
  /\ \E active \in {DirectTenant, TelegramTenant} : \E c \in InitCreds(active) :
       LET cred(t) == IF t = active THEN c
                      ELSE IF t \in {DirectTenant, TelegramTenant} THEN StaticCreds(t)
                      ELSE NoRow IN
       /\ users = [t \in TenantIds |-> IF t = DirectTenant THEN cred(t) ELSE NoRow]
       /\ tenant_tokens = [t \in TenantIds |-> cred(t)]
  /\ telegram_users = {TelegramUser(TelegramTenant, 1, Null)}
  /\ telegram_sessions = {}
  /\ usedCodes = {}
  /\ resolved = {}
  /\ InitRequests

Next ==
  \/ \E p \in Procs, t \in TenantIds : CheckGoogleTokenValidity(p, t)
  \/ \E p \in Procs, chat \in Chats : TelegramAuthMiddleware(p, chat)
  \/ \E p \in Procs : GetUserWithGoogleToken(p, DirectTenant)
  \/ \E p \in Procs, t \in TenantIds : GetAuthorizedClient(p, t)
  \/ \E p \in Procs, t \in TenantIds : CreateCalendar(p, t)
  \/ \E p \in Procs : RefreshSucceeds(p)
  \/ \E p \in Procs, kind \in RefreshFailures : RefreshFails(p, kind)
  \/ \E p \in Procs : MiddlewareUpdate(p)
  \/ \E p \in Procs : UserUpdate(p)
  \/ \E p \in Procs : UserUpdateDone(p)
  \/ Tick

Spec == Init /\ [][Next]_vars

\* the handshake on its own: a chat that may or may not be linked already
InitHandshake ==
  /\ now = 1
  /\ issued = 2
  /\ users = [t \in TenantIds |-> NoRow]
  /\ \E linked \in BOOLEAN :
       /\ telegram_users = IF linked THEN {TelegramUser(TelegramTenant, 1, Null)} ELSE {}
       /\ tenant_tokens = [t \in TenantIds |->
            IF linked /\ t = TelegramTenant THEN Row(2, 2, 2) ELSE NoRow]
       /\ resolved = IF linked THEN {[account |-> "g1", tenant |-> TelegramTenant]}
                     ELSE {}
  /\ telegram_sessions = {}
  /\ usedCodes = {}
  /\ InitRequests

NextHandshake ==
  \/ \E p \in Procs, chat \in Chats : GenerateTelegramOAuthUrl(p, chat)
  \/ \E p \in Procs, code \in Codes, state \in States :
       HandleTelegramOAuthCallback(p, code, state)
  \/ \E p \in Procs : ExchangeCode(p)
  \/ \E p \in Procs : FindTelegramUser(p)
  \/ \E p \in Procs : LinkTelegramUser(p)
  \/ \E p \in Procs : MarkSession(p)
  \/ \E p \in Procs : StoreTokens(p)
  \/ HandshakeTick

SpecHandshake == InitHandshake /\ [][NextHandshake]_vars

\* the direct handshake on its own: an account that signs in again, with
\* or without its tenant_tokens row, and an account that signs in first
InitDirectHandshake ==
  /\ now = 1
  /\ issued = 2
  /\ \E c \in InitCreds(DirectTenant), stored \in BOOLEAN :
       /\ users = [t \in TenantIds |-> IF t = DirectTenant THEN c ELSE NoRow]
       /\ tenant_tokens = [t \in TenantIds |->
            IF t = DirectTenant /\ stored THEN c ELSE NoRow]
  /\ telegram_users = {}
  /\ telegram_sessions = {}
  /\ usedCodes = {}
  /\ resolved = {}
  /\ InitRequests

NextDirectHandshake ==
  \/ \E p \in Procs, t \in TenantIds \ {TelegramTenant}, state \in DirectStates :
       HandleGoogleOAuthCallback(p, t, state)
  \/ \E p \in Procs : UpdateUserProfile(p)
  \/ \E p \in Procs : StoreTenantTokens(p)
  \/ \E p \in Procs, t \in TenantIds : GetAuthorizedClient(p, t)

SpecDirectHandshake == InitDirectHandshake /\ [][NextDirectHandshake]_vars

\* the events a calendar can hold in the window: zero-length events, events
\* off the 15 minute grid, events that touch the ends of candidates
BusyTimes == {0, 15, 20, 30}
BusyIntervals ==
  {Interval(b[1], b[2]) : b \in {x \in BusyTimes \X BusyTimes : x[1] <= x[2]}}
BusyLists == UNION {[1..n -> BusyIntervals] : n \in 0..MaxBusy}

\* parseInt(duration): negative, zero, off the grid, on it, and longer than
\* any window below
Durations == {-15, 0, 10, 15, 30, 60}
WindowEnds == {0, 15, 30, 45}

\* the day of the example: 09:00 to 17:00, one hour slots, busy 12:00-13:00
ExampleRequest ==
  [tenant |-> DirectTenant, date |-> TRUE, startOfDay |-> 540, endOfDay |-> 1020,
   duration |-> 60, busy |-> <<Interval(720, 780)>>]

SlotRequests ==
  {[tenant |-> DirectTenant, date |-> TRUE, startOfDay |-> 0, endOfDay |-> e,
    duration |-> d, busy |-> b] :
     e \in WindowEnds, d \in Durations, b \in BusyLists}
    \cup {[ExampleRequest EXCEPT !.tenant = t] : t \in {TelegramTenant, 3}}
    \cup {[ExampleRequest EXCEPT !.date = FALSE]}
    \cup {ExampleRequest}

\* one availability request against a store where tenant 1 has a credential,
\* tenant 2 a row without tokens and tenant 3 no row
InitAvailability ==
  /\ now = 1
  /\ issued = 2
  /\ users = [t \in TenantIds |-> NoRow]
  /\ tenant_tokens = [t \in TenantIds |->
       IF t = DirectTenant THEN StaticCreds(t)
       ELSE IF t = TelegramTenant THEN Row(Null, Null, Null) ELSE NoRow]
  /\ telegram_users = {}
  /\ telegram_sessions = {}
  /\ usedCodes = {}
  /\ resolved = {}
  /\ InitWorkers
  /\ slotRequest \in SlotRequests
  /\ slotResult = NoSlotResult

NextAvailability == GetAvailableTimeSlots

SpecAvailability == InitAvailability /\ [][NextAvailability]_vars

\* authenticateToken on its own: the users row and the telegram_users row
\* are there or not
InitAuthenticate ==
  /\ now = 1
  /\ issued = 2
  /\ \E direct \in BOOLEAN :
       users = [t \in TenantIds |->
                  IF direct /\ t = DirectTenant THEN StaticCreds(t) ELSE NoRow]
  /\ tenant_tokens = [t \in TenantIds |-> NoRow]
  /\ \E linked \in BOOLEAN :
       telegram_users = IF linked THEN {TelegramUser(TelegramTenant, 1, Null)} ELSE {}
  /\ telegram_sessions = {NewSession(1, 1, 1)}
  /\ usedCodes = {}
  /\ resolved = {}
  /\ InitRequests

NextAuthenticate ==
  \/ \E p \in Procs, token \in BearerTokens : AuthenticateToken(p, token)
  \/ \E p \in Procs : FindTokenUser(p)
  \/ Tick

SpecAuthenticate == InitAuthenticate /\ [][NextAuthenticate]_vars

\* identity resolution on its own, by token and by chat id; the tokens are
\* those of tenants 1 and 2, an unsigned one with the later expiry only
IdentityTokens ==
  {token \in BearerTokens :
     token.present => /\ token.userId \in {DirectTenant, TelegramTenant}
                      /\ (token.signed \/ token.exp = 3)}

NextIdentity ==
  \/ \E p \in Procs, token \in IdentityTokens : AuthenticateToken(p, token)
  \/ \E p \in Procs : FindTokenUser(p)
  \/ \E p \in Procs, chat \in Chats \cup {Null} : AuthTelegramAuthMiddleware(p, chat)
  \/ \E p \in Procs, chat \in Chats : TelegramAuthMiddleware(p, chat)
  \/ Tick

SpecIdentity == InitAuthenticate /\ [][NextIdentity]_vars

\* disconnect on its own: the telegram tenant has completed a handshake for
\* chat 1 (its session is marked, its credential stored), and its row is
\* linked to the direct tenant or to none
InitDisconnect ==
  /\ now = 1
  /\ issued = 2
  /\ users = [t \in TenantIds |->
                IF t = DirectTenant THEN StaticCreds(t) ELSE NoRow]
  /\ tenant_tokens = [t \in TenantIds |->
       IF t \in {DirectTenant, TelegramTenant} THEN StaticCreds(t) ELSE NoRow]
  /\ \E user_id \in {Null, DirectTenant} :
       telegram_users = {TelegramUser(TelegramTenant, 1, user_id)}
  /\ telegram_sessions =
       {[token |-> 1, chat |-> 1, expires_at |-> now + SessionLifeMin,
         user_id |-> TelegramTenant]}
  /\ usedCodes = {}
  /\ resolved = {[account |-> "g1", tenant |-> TelegramTenant]}
  /\ InitRequests

NextDisconnect ==
  \/ \E p \in Procs, userId \in TenantIds : DisconnectTelegram(p, userId)
  \/ \E p \in Procs, userId \in TenantIds : TelegramControllerDisconnect(p, userId)
  \/ \E p \in Procs, chat \in Chats : TelegramAuthMiddleware(p, chat)
  \/ \E p \in Procs, t \in TenantIds : GetAuthorizedClient(p, t)
  \/ Tick

SpecDisconnect == InitDisconnect /\ [][NextDisconnect]_vars

\* the middleware's update when the store takes the write
MiddlewareUpdateStored(p) ==
  MiddlewareUpdate(p) /\ outcome'.res = Proceed

\* the refreshing middleware with a provider that answers every refresh
\* call and a store that takes every write; an awaited call that can return
\* does return
NextRefresh ==
  \/ \E p \in Procs, t \in TenantIds : CheckGoogleTokenValidity(p, t)
  \/ \E p \in Procs, chat \in Chats : TelegramAuthMiddleware(p, chat)
  \/ \E p \in Procs : RefreshSucceeds(p)
  \/ \E p \in Procs : MiddlewareUpdateStored(p)
  \/ Tick

SpecRefresh ==
  /\ Init
  /\ [][NextRefresh]_vars
  /\ \A p \in Procs :
       WF_vars(RefreshSucceeds(p)) /\ WF_vars(MiddlewareUpdateStored(p))

\* the calendar route on its own, over the stores of Init
NextCalendars ==
  \/ \E p \in Procs, chat \in Chats, tenantId \in TenantIds :
       PostCalendars(p, chat, tenantId)
  \/ Tick

SpecCalendars == Init /\ [][NextCalendars]_vars

\* disconnectGoogle among the acquire paths of its tenant; no handshake
NextDisconnectGoogle ==
  \/ \E p \in Procs : DisconnectGoogle(p, DirectTenant)
  \/ \E p \in Procs : CheckGoogleTokenValidity(p, DirectTenant)
  \/ \E p \in Procs : GetUserWithGoogleToken(p, DirectTenant)
  \/ \E p \in Procs : GetAuthorizedClient(p, DirectTenant)
  \/ \E p \in Procs : RefreshSucceeds(p)
  \/ \E p \in Procs, kind \in RefreshFailures : RefreshFails(p, kind)
  \/ \E p \in Procs : MiddlewareUpdate(p)
  \/ \E p \in Procs : UserUpdate(p)
  \/ \E p \in Procs : UserUpdateDone(p)
  \/ Tick

SpecDisconnectGoogle == Init /\ [][NextDisconnectGoogle]_vars

\* acquire and refresh by the middlewares, the channel handshake and
\* disconnectGoogle side by side, at one time of day: tenants 1 and 2 have a credential inside the 5 minute
\* buffer, chat 1 is linked to tenant 2, and a session is pending for each
\* chat
InitScoped ==
  /\ now = 2
  /\ issued = 2
  /\ users = [t \in TenantIds |-> IF t = DirectTenant THEN Row(1, 1, 6) ELSE NoRow]
  /\ tenant_tokens = [t \in TenantIds |->
       IF t \in {DirectTenant, TelegramTenant} THEN Row(t, t, 6) ELSE NoRow]
  /\ telegram_users = {TelegramUser(TelegramTenant, 1, Null)}
  /\ telegram_sessions = {NewSession(1, 1, now), NewSession(2, 2, now)}
  /\ usedCodes = {}
  /\ resolved = {}
  /\ InitRequests

NextScoped ==
  \/ \E p \in Procs : CheckGoogleTokenValidity(p, DirectTenant)
  \/ \E p \in Procs, chat \in Chats : TelegramAuthMiddleware(p, chat)
  \/ \E p \in Procs : RefreshSucceeds(p)
  \/ \E p \in Procs : RefreshFails(p, "network")
  \/ \E p \in Procs : MiddlewareUpdate(p)
  \/ \E p \in Procs, state \in States : HandleTelegramOAuthCallback(p, "c1", state)
  \/ \E p \in Procs : ExchangeCode(p)
  \/ \E p \in Procs : FindTelegramUser(p)
  \/ \E p \in Procs : LinkTelegramUser(p)
  \/ \E p \in Procs : MarkSession(p)
  \/ \E p \in Procs : StoreTokens(p)
  \/ \E p \in Procs, t \in {DirectTenant, TelegramTenant} : DisconnectGoogle(p, t)

SpecScoped == InitScoped /\ [][NextScoped]_vars

\* the handshake run again: both tenants hold a credential with a refresh
\* token, the chat is linked and has a session open, and the provider's
\* answer to a code comes with a refresh token or without; a disconnect of
\* the direct tenant may come in between
InitRehandshake ==
  /\ now = 2
  /\ issued = 2
  /\ users = [t \in TenantIds |-> IF t = DirectTenant THEN Row(1, 1, 6) ELSE NoRow]
  /\ tenant_tokens = [t \in TenantIds |->
       IF t \in {DirectTenant, TelegramTenant} THEN Row(t, t, 6) ELSE NoRow]
  /\ telegram_users = {TelegramUser(TelegramTenant, 1, Null)}
  /\ telegram_sessions = {NewSession(1, 1, now)}
  /\ usedCodes = {}
  /\ resolved = {}
  /\ InitRequests

NextRehandshake ==
  \/ \E p \in Procs : HandleGoogleOAuthCallback(p, DirectTenant, NoState)
  \/ \E p \in Procs : UpdateUserProfile(p)
  \/ \E p \in Procs : StoreTenantTokens(p)
  \/ \E p \in Procs, code \in Codes, state \in States :
       HandleTelegramOAuthCallback(p, code, state)
  \/ \E p \in Procs, withRefresh \in BOOLEAN : ExchangeCodeWith(p, withRefresh)
  \/ \E p \in Procs : FindTelegramUser(p)
  \/ \E p \in Procs : LinkTelegramUser(p)
  \/ \E p \in Procs : MarkSession(p)
  \/ \E p \in Procs : StoreTokens(p)
  \/ \E p \in Procs : DisconnectGoogle(p, DirectTenant)

SpecRehandshake == InitRehandshake /\ [][NextRehandshake]_vars

\* the sweep among initiate and the callback: the table starts with a
\* session of chat 2 that expired before the clock started, its token one
\* that no state of a callback names
OldSession ==
  [token |-> MaxSessions + 1, chat |-> 2, expires_at |-> 0, user_id |-> Null]

InitSweep ==
  /\ now = 1
  /\ issued = 2
  /\ users = [t \in TenantIds |-> NoRow]
  /\ tenant_tokens = [t \in TenantIds |-> NoRow]
  /\ telegram_users = {}
  /\ telegram_sessions = {OldSession}
  /\ usedCodes = {}
  /\ resolved = {}
  /\ InitRequests

NextSweep ==
  \/ \E p \in Procs, chat \in Chats : GenerateTelegramOAuthUrl(p, chat)
  \/ \E p \in Procs : CleanExpiredSessions(p)
  \/ \E p \in Procs, state \in States : HandleTelegramOAuthCallback(p, "c1", state)
  \/ \E p \in Procs : ExchangeCode(p)
  \/ \E p \in Procs : FindTelegramUser(p)
  \/ \E p \in Procs : LinkTelegramUser(p)
  \/ \E p \in Procs : MarkSession(p)
  \/ \E p \in Procs : StoreTokens(p)
  \/ HandshakeTick

SpecSweep == InitSweep /\ [][NextSweep]_vars

\* requests that go through the middleware to a handler, two at a time
NextRequest ==
  \/ \E p \in Procs, t \in TenantIds : CheckGoogleTokenValidity(p, t)
  \/ \E p \in Procs, chat \in Chats : TelegramAuthMiddleware(p, chat)
  \/ \E p \in Procs : RefreshSucceeds(p)
  \/ \E p \in Procs, kind \in RefreshFailures : RefreshFails(p, kind)
  \/ \E p \in Procs : MiddlewareUpdateNext(p)
  \/ \E p \in Procs : HandlerGetAuthorizedClient(p)
  \/ Tick

SpecRequest == Init /\ [][NextRequest]_vars

\* ------------------------------------------------------------ properties
\* a stored credential whose expiry lies more than the 5 minute buffer ahead
FreshCredential(row) ==
  row.exists /\ row.access # Null /\ row.expiry # Null
    /\ row.expiry > now + SkewBufferMin

\* a stored credential that has no expiry at all
CredentialWithoutExpiry(row) ==
  row.exists /\ row.access # Null /\ row.expiry = Null

\* the request of p ended in this very step, and the handler may run
ProceedsAtOnce(p) ==
  /\ pc'[p] = "idle"
  /\ outcome'.by = p
  /\ outcome'.res \in {Proceed, Return}

\* no refresh call left the process and nothing was written
NoCallNoWrite(p) ==
  /\ pc'[p] # "refresh"
  /\ UNCHANGED <<users, tenant_tokens, telegram_users, telegram_sessions, issued>>

\* in this step a request arrives at p and loads a credential: it either
\* goes on to the refresh call or ends
LoadStep(p) ==
  /\ pc[p] = "idle"
  /\ pc'[p] = "refresh" \/ outcome'.by = p

\* the path the arriving request runs, and the tenant it is for
LoadedPath(p) == IF pc'[p] = "refresh" THEN path'[p] ELSE outcome'.path
LoadedTenant(p) == IF pc'[p] = "refresh" THEN reqTenant'[p] ELSE outcome'.tenant

\* the row the arriving request reads
LoadedRow(p) ==
  IF LoadedTenant(p) \notin TenantIds THEN NoRow
  ELSE IF LoadedPath(p) = "getUserWithGoogleToken" THEN users[LoadedTenant(p)]
  ELSE tenant_tokens[LoadedTenant(p)]

AcquirePaths ==
  {"checkGoogleTokenValidity", "telegramAuthMiddleware", "getUserWithGoogleToken"}

\* C1: an acquire (checkGoogleTokenValidity, telegramAuthMiddleware,
\* getUserWithGoogleToken) over a stored credential whose expiry is more
\* than 5 minutes after the current time issues no refresh call, writes
\* nothing to the store and lets the request proceed.
C1_FreshCredentialIsUsedAsIs ==
  [][\A p \in Procs :
       (LoadStep(p) /\ LoadedPath(p) \in AcquirePaths
          /\ FreshCredential(LoadedRow(p)))
         => ProceedsAtOnce(p) /\ NoCallNoWrite(p)]_vars

\* a middleware request has just gone through on the credential the tenant
\* started with, which is still fresh
C1_Witness ==
  /\ outcome.path = "checkGoogleTokenValidity"
  /\ outcome.res = Proceed
  /\ outcome.tenant = DirectTenant
  /\ tenant_tokens[DirectTenant] = Row(DirectTenant, DirectTenant, 7)
  /\ FreshCredential(tenant_tokens[DirectTenant])

\* C2: no two refresh calls for the same tenant are in flight at once.
C2_SingleRefreshInFlight ==
  \A p, q \in Procs :
    (p # q /\ pc[p] = "refresh" /\ pc[q] = "refresh")
      => reqTenant[p] # reqTenant[q]

\* C3: a refresh never replaces the stored access token by one from an
\* older provider response: the stored token only moves forward.
C3_StoredTokenNeverGoesBack ==
  [][\A t \in TenantIds :
       (tenant_tokens[t].exists /\ tenant_tokens'[t].exists)
         => tenant_tokens'[t].access >= tenant_tokens[t].access]_vars

\* C7: when the refresh call fails with invalid_grant the acquire ends as
\* "re-authorization required" (the middleware answers 401 with needsAuth,
\* the service throws its re-authenticate error) and the stored credential
\* is what it was before the call.
C7_InvalidGrantIsReauthRequired ==
  [][\A p \in Procs :
       RefreshFails(p, "invalid_grant") =>
         /\ outcome'.by = p
         /\ outcome'.res =
              IF path[p] \in MiddlewarePaths
                THEN RespondReauth("refresh_failed")
                ELSE Throw("invalid_refresh_token")
         /\ UNCHANGED <<users, tenant_tokens>>]_vars

\* the service has just thrown its re-authenticate error for a tenant whose
\* expired credential is still stored, refresh token included
C7_Witness ==
  /\ outcome.path = "getUserWithGoogleToken"
  /\ outcome.res = Throw("invalid_refresh_token")
  /\ users[outcome.tenant].refresh # Null
  /\ UserTokenExpired(users[outcome.tenant].expiry, now)

\* C8: a refresh failure that is not invalid_grant ends differently from
\* one that is, and carries no needsAuth flag.
C8_TransientFailureIsNotReauth ==
  [][\A p \in Procs :
       RefreshFails(p, "network") =>
         /\ ~outcome'.res.needsAuth
         /\ outcome'.res # RefreshFailureOutcome(path[p], "invalid_grant")]_vars

\* C9: an acquire over a stored credential without expiry issues no refresh
\* call and lets the request proceed, on every acquire path.
C9_NoExpiryIsUsedAsIs ==
  [][\A p \in Procs :
       (LoadStep(p) /\ LoadedPath(p) \in AcquirePaths
          /\ CredentialWithoutExpiry(LoadedRow(p)))
         => ProceedsAtOnce(p) /\ NoCallNoWrite(p)]_vars

\* a stored credential inside the 5 minute buffer or past its expiry, and
\* without refresh token
ExpiredWithoutRefresh(row) ==
  /\ row.exists /\ row.access # Null
  /\ row.expiry # Null /\ now > row.expiry - SkewBufferMin
  /\ row.refresh = Null

RefreshWrites(p) ==
  /\ pc[p] = "update"
  /\ pc'[p] = "idle" \/ pending'[p] # pending[p]

\* the refresh token a refreshed row must hold: the provider's when it sent
\* one, else the one the row held
KeptRefreshToken(row, nt) ==
  IF nt.refresh # Null THEN nt.refresh ELSE row.refresh

\* C12: every write of a successful refresh leaves in the row the refresh
\* token the provider returned, or, when it returned none, the refresh
\* token the row held before; a refresh never clears it.
C12_RefreshTokenReplacedOnlyByProvider ==
  [][\A p \in Procs :
       RefreshWrites(p) =>
         LET t == reqTenant[p] IN
         /\ tenant_tokens'[t] # tenant_tokens[t] =>
              tenant_tokens'[t].refresh =
                KeptRefreshToken(tenant_tokens[t], newTokens[p])
         /\ users'[t] # users[t] =>
              users'[t].refresh = KeptRefreshToken(users[t], newTokens[p])]_vars

\* in this step the service's refresh of p comes to its end, both of its
\* updates being back
ServiceRefreshEnds(p) ==
  /\ pc[p] = "update"
  /\ pc'[p] = "idle"
  /\ path[p] = "getUserWithGoogleToken"

\* C13: a refresh is persisted as a whole or not at all: when the service's
\* refresh ends, failed or not, the users copy and the tenant_tokens copy of
\* the tenant's credential either both hold the access token of the
\* provider response or neither does.
C13_RefreshPersistedAsAWhole ==
  [][\A p \in Procs :
       ServiceRefreshEnds(p) =>
         LET t == reqTenant[p]
             a == newTokens[p].access IN
         (users'[t].access = a) <=> (tenant_tokens'[t].access = a)]_vars

\* in this step a handshake of p writes the credential of its tenant
DirectStoreWrites(p) ==
  /\ pc[p] = "tokens" /\ pc'[p] = "idle"
  /\ tenant_tokens'[reqTenant[p]] # tenant_tokens[reqTenant[p]]
TelegramStoreWrites(p) ==
  /\ pc[p] = "store" /\ pc'[p] = "idle"
  /\ tenant_tokens'[cb[p].user] # tenant_tokens[cb[p].user]

\* C14: when a handshake has stored the credential {a, r, e} the provider
\* gave it, loading the tenant's credential right after returns {a, r, e},
\* also when the provider sent no refresh token.
C14_StoredCredentialLoadsBack ==
  [][\A p \in Procs :
       /\ DirectStoreWrites(p) =>
            LoadCredential(tenant_tokens'[reqTenant[p]]) = newTokens[p]
       /\ TelegramStoreWrites(p) =>
            LoadCredential(tenant_tokens'[cb[p].user]) = cb[p].tokens]_vars

\* there is no credential: no row, or a row without access token
NoCredential(row) == ~row.exists \/ row.access = Null

\* C10: an acquire for a tenant without stored credential ends at once with
\* the no-credential failure, without a remote call or a store write; the
\* handler is not reached.
C10_NoCredentialFailsAtOnce ==
  [][\A p \in Procs :
       (LoadStep(p) /\ LoadedTenant(p) \in TenantIds
          /\ NoCredential(tenant_tokens[LoadedTenant(p)]))
         => /\ LoadedPath(p) \in MiddlewarePaths
                 => /\ pc'[p] = "idle"
                    /\ outcome'.res = RespondReauth("no_tokens")
                    /\ NoCallNoWrite(p)
            /\ LoadedPath(p) = "getAuthorizedClient"
                 => /\ pc'[p] = "idle"
                    /\ outcome'.res \in {Throw("tokens_not_found"),
                                         Throw("no_google_access_token")}
                    /\ NoCallNoWrite(p)]_vars

\* the middleware has just turned away a request for a tenant whose row has
\* no access token
C10_Witness ==
  /\ outcome.path = "checkGoogleTokenValidity"
  /\ outcome.res = RespondReauth("no_tokens")
  /\ tenant_tokens[outcome.tenant].exists
  /\ tenant_tokens[outcome.tenant].access = Null

\* the steps of a callback that has passed the session check
PastSessionCheck == {"exchange", "userinfo", "link", "mark", "store"}

\* in this step a callback arrives at p and is checked against the sessions
CallbackArrives(p) ==
  /\ pc[p] = "idle"
  /\ \/ pc'[p] = "exchange"
     \/ outcome'.by = p /\ outcome'.path = "handleTelegramOAuthCallback"

\* the authorization code, and the chat and the session token of the state,
\* that the arriving callback brings
ArrivingCode(p) == IF pc'[p] = "exchange" THEN cb'[p].code ELSE outcome'.code
ArrivingChat(p) == IF pc'[p] = "exchange" THEN cb'[p].chat ELSE outcome'.chat
ArrivingSession(p) == IF pc'[p] = "exchange" THEN cb'[p].session ELSE outcome'.session

\* C4: when handleTelegramOAuthCallback has just succeeded, leaving its
\* session marked with the user, and is called again with the same code and
\* state, with no other callback in flight, the second call is turned away
\* at the session check.
C4_SecondCallbackStopsAtSessionCheck ==
  [][\A p \in Procs :
       ( /\ outcome.path = "handleTelegramOAuthCallback"
         /\ outcome.res.error = "authorized"
         /\ \E x \in telegram_sessions :
              x.token = outcome.session /\ x.user_id # Null
         /\ \A q \in Procs : pc[q] = "idle"
         /\ CallbackArrives(p)
         /\ ArrivingCode(p) = outcome.code
         /\ ArrivingChat(p) = outcome.chat
         /\ ArrivingSession(p) = outcome.session )
       => /\ pc'[p] = "idle"
          /\ outcome'.res = Throw("invalid_or_expired_session")]_vars

\* C5: of the callbacks that name the same session, at most one is past the
\* session check at any time.
C5_OneCallbackPerSession ==
  \A p, q \in Procs :
    (p # q /\ pc[p] \in PastSessionCheck /\ pc[q] \in PastSessionCheck)
      => cb[p].session # cb[q].session

\* C6: a callback whose state names, chat and token, a session with
\* expires_at at or before the current time is turned away at the session
\* check: no code is exchanged with the provider and nothing is written.
C6_ExpiredSessionIsRejected ==
  [][\A p \in Procs :
       ( /\ CallbackArrives(p)
         /\ \E x \in telegram_sessions :
              /\ x.token = ArrivingSession(p)
              /\ x.chat = ArrivingChat(p)
              /\ x.expires_at <= now )
       => /\ pc'[p] = "idle"
          /\ outcome'.res = Throw("invalid_or_expired_session")
          /\ UNCHANGED <<users, tenant_tokens, telegram_users, telegram_sessions,
                         usedCodes, issued>>]_vars

\* a callback has just been turned away for a session that expires at this
\* very minute
C6_Witness ==
  /\ outcome.path = "handleTelegramOAuthCallback"
  /\ outcome.res = Throw("invalid_or_expired_session")
  /\ \E x \in telegram_sessions :
       x.token = outcome.session /\ x.chat = outcome.chat /\ x.expires_at = now

\* ------------------------------------------------------------ availability checks
\* getAvailableTimeSlots has returned its list
Computed == slotResult.kind = "slots"

\* what it returned, as a set
Emitted == {slotResult.slots[i] : i \in 1..Len(slotResult.slots)}

\* the starts on the 15 minute grid whose slot ends inside the window
Candidates ==
  {t \in slotRequest.startOfDay..(slotRequest.endOfDay - slotRequest.duration) :
     (t - slotRequest.startOfDay) % GranularityMin = 0}

\* the slot that starts at t
SlotAt(t) == Interval(t, t + slotRequest.duration)

\* overlap of half-open intervals
HalfOpenOverlap(cs, ce, b) == cs < b.end /\ ce > b.start

\* C15: for a positive duration, a candidate is returned as free exactly
\* when no busy interval overlaps it in the half-open sense
\* (candidate.start < busy.end and candidate.end > busy.start), zero-length
\* busy intervals and busy intervals touching a candidate's end included.
C15_FreeIffNoHalfOpenOverlap ==
  (Computed /\ slotRequest.duration > 0) =>
    \A t \in Candidates :
      SlotAt(t) \in Emitted <=>
        \A i \in 1..Len(slotRequest.busy) :
          ~HalfOpenOverlap(t, t + slotRequest.duration, slotRequest.busy[i])

\* the slots of the example day, by the minute they start
ExampleSlotsHold ==
  /\ Interval(660, 720) \in Emitted
  /\ Interval(780, 840) \in Emitted
  /\ Interval(675, 735) \notin Emitted
  /\ Interval(720, 780) \notin Emitted

\* C16: for a busy interval [b, e] with b < e, no candidate that starts in
\* [b, e) or ends in (b, e] is returned, while, that interval being the only
\* one, the candidate ending at b and the candidate starting at e are
\* returned; on the example day (09:00-17:00, 60 minutes, busy 12:00-13:00)
\* 11:00 and 13:00 are returned and 11:15 and 12:00 are not.
C16_TouchingSlotsAreFree ==
  (Computed /\ slotRequest.duration > 0) =>
    /\ \A i \in 1..Len(slotRequest.busy) : \A t \in Candidates :
         LET b == slotRequest.busy[i]
             slotEnd == t + slotRequest.duration IN
         b.start < b.end =>
           /\ ((t >= b.start /\ t < b.end) \/ (slotEnd > b.start /\ slotEnd <= b.end))
                => SlotAt(t) \notin Emitted
           /\ (Len(slotRequest.busy) = 1 /\ (slotEnd = b.start \/ t = b.end))
                => SlotAt(t) \in Emitted
    /\ slotRequest = ExampleRequest => ExampleSlotsHold

\* the list of the example day has been returned
C16_Witness ==
  /\ Computed
  /\ slotRequest = ExampleRequest
  /\ ExampleSlotsHold

\* what can fail before the slots are generated
UpstreamErrors ==
  {"tokens_not_found", "no_google_access_token", "date_required",
   "events_list_failed"}

\* C17: with a duration longer than the window the list returned is empty,
\* whatever the busy intervals, and generating it raises nothing: the
\* request fails only where the credential, the date or the events do.
C17_DurationLongerThanWindowIsEmpty ==
  (slotResult.kind # "none"
     /\ slotRequest.duration > slotRequest.endOfDay - slotRequest.startOfDay) =>
    /\ Computed => slotResult.slots = <<>>
    /\ slotResult.kind = "throw" => slotResult.error \in UpstreamErrors

\* an empty list has been returned for an hour asked of a window of half an
\* hour that has events in it
C17_Witness ==
  /\ Computed
  /\ slotRequest.endOfDay - slotRequest.startOfDay = 30
  /\ slotRequest.duration = 60
  /\ slotRequest.busy # <<>>
  /\ slotResult.slots = <<>>

Perms(seq) ==
  {[i \in 1..Len(seq) |-> seq[f[i]]] :
     f \in {g \in [1..Len(seq) -> 1..Len(seq)] :
              \A a, b \in 1..Len(seq) : a # b => g[a] # g[b]}}

\* C19: the list returned is the same for every order of the busy
\* intervals.
C19_BusyOrderDoesNotMatter ==
  Computed =>
    \A q \in Perms(slotRequest.busy) :
      AvailableSlots(slotRequest.startOfDay, slotRequest.duration,
                     slotRequest.endOfDay, q) = slotResult.slots

\* a list has been returned for two events given later one first, each of
\* which takes a slot away
C19_Witness ==
  /\ Computed
  /\ slotRequest.duration = 15
  /\ slotRequest.endOfDay = 45
  /\ slotRequest.busy = <<Interval(20, 30), Interval(0, 15)>>
  /\ slotResult.slots = <<Interval(30, 45)>>

\* C20: a request with a duration of zero or less does not return slots.
C20_NonPositiveDurationIsRefused ==
  (slotResult.kind # "none" /\ slotRequest.duration <= 0) => ~Computed

\* ------------------------------------------------------------ tenant checks
\* C21: a tenant whose handshake has just been reported successful has a
\* credential stored: a tenant_tokens row with an access token.
C21_SuccessfulHandshakeLeavesCredential ==
  (outcome.path \in {"handleTelegramOAuthCallback", "handleGoogleOAuthCallback"}
     /\ outcome.res.kind = "return")
    => HasCredential(tenant_tokens[outcome.tenant])

\* C22: a chat id has at most one telegram_users row, and a telegram_users
\* id (the tenant) at most one chat id.
C22_OneTenantPerChat ==
  \A u, v \in telegram_users :
    (u.chat = v.chat \/ u.id = v.id) => u = v

\* C23: over the handshakes reported successful, a Google account has at
\* most one tenant.
C23_OneTenantPerAccount ==
  \A a, b \in resolved : a.account = b.account => a.tenant = b.tenant

\* C24: a callback reports success only in a step that has written the
\* credential of its tenant; a failed credential write is not a success.
C24_SuccessHasWrittenCredential ==
  [][(outcome'.path \in {"handleTelegramOAuthCallback", "handleGoogleOAuthCallback"}
        /\ outcome'.res.kind = "return")
       => tenant_tokens'[outcome'.tenant] # tenant_tokens[outcome'.tenant]]_vars

\* the callback of p ends in this step, after its session was found
CallbackEndsAfterSession(p) ==
  pc[p] \in {"exchange", "userinfo", "link", "mark", "store"} /\ pc'[p] = "idle"

\* the provider has exchanged no code in the handshake but that of p
OnlyExchange(p) ==
  issued' = 2 \/ (issued' = 3 /\ cb[p].tokens.access = 3)

\* C25: when the only callback the provider gave tokens to ends with a
\* failed step (a throw, or a credential write that wrote nothing), its
\* session still has no user_id.
C25_FailedCallbackLeavesSessionUnresolved ==
  [][\A p \in Procs :
       (CallbackEndsAfterSession(p)
          /\ OnlyExchange(p)
          /\ (outcome'.res.kind = "throw" \/ tenant_tokens' = tenant_tokens))
         => \A x \in telegram_sessions' :
              x.token = cb[p].session => x.user_id = Null]_vars

\* in this step a callback arrives at p with a state that is not JSON, or
\* is JSON of no known type
MalformedStateArrives(p) ==
  /\ pc[p] = "idle"
  /\ \/ pc'[p] # "idle" /\ cb'[p].state \in {"malformed", "other"}
     \/ /\ outcome'.by = p
        /\ outcome'.path \in {"handleTelegramOAuthCallback", "handleGoogleOAuthCallback"}
        /\ outcome'.state \in {"malformed", "other"}

\* C26: a callback with a malformed state ends at once with a failure: no
\* code is exchanged and no table is written.
C26_MalformedStateIsRejectedAtOnce ==
  [][\A p \in Procs :
       MalformedStateArrives(p)
         => /\ pc'[p] = "idle"
            /\ outcome'.res.kind = "throw"
            /\ UNCHANGED <<issued, usedCodes, users, tenant_tokens,
                           telegram_users, telegram_sessions>>]_vars

\* in this step a request arrives at authenticateToken on p
TokenArrives(p) ==
  /\ pc[p] = "idle"
  /\ \/ pc'[p] = "lookup"
     \/ outcome'.by = p /\ outcome'.path = "authenticateToken"

\* in this step authenticateToken turns the request of p away: a 401 or 500
\* answer, no req.user or req.tenantId, no next()
TurnedAway(p) ==
  /\ pc'[p] = "idle"
  /\ outcome'.by = p
  /\ outcome'.path = "authenticateToken"
  /\ outcome'.res.kind = "response"
  /\ outcome'.res.status \in {401, 500}
  /\ outcome'.tenant = Null

\* the record the payload of the token names
NamedRecordExists(token) ==
  \/ token.user_type \in {"chatgpt", "email"} /\ users[token.userId].exists
  \/ token.user_type = "none" /\ \E u \in telegram_users : u.id = token.userId

\* C27: a request that arrives without a token, with a token not signed
\* with the secret or with one whose exp is not after the clock is turned
\* away at once; so is, at the lookup, one whose payload names no record.
C27_BadTokenIsTurnedAway ==
  [][\A p \in Procs :
       /\ (TokenArrives(p)
             /\ (~bearer'[p].present \/ ~bearer'[p].signed \/ bearer'[p].exp <= now))
            => TurnedAway(p)
       /\ (pc[p] = "lookup" /\ pc'[p] = "idle" /\ ~NamedRecordExists(bearer[p]))
            => TurnedAway(p)]_vars

\* a signed token whose exp is the clock's time, and a signed unexpired one
\* naming tenant 3, have both been answered 401
C27_Witness ==
  /\ outcome.path = "authenticateToken"
  /\ outcome.res.kind = "response"
  /\ outcome.res.status = 401
  /\ outcome.by = "p1"
  /\ bearer["p1"].signed /\ bearer["p1"].exp > now /\ bearer["p1"].userId = 3
  /\ bearer["p2"].signed /\ bearer["p2"].exp = 1
  /\ pc["p2"] = "idle"

\* C28: every 401 a middleware answers with, that of a chat id without a
\* telegram_users row included, has needsAuth set.
C28_UnauthorizedCarriesNeedsAuth ==
  (outcome.path \in MiddlewarePaths
     /\ outcome.res.kind = "response"
     /\ outcome.res.status = 401)
    => outcome.res.needsAuth

\* C29: every 401 with needsAuth that a credential check answers with, in
\* the middleware or in a controller, has an authUrl.
C29_NeedsAuthCarriesAuthUrl ==
  (outcome.path \in MiddlewarePaths \cup {"createCalendar"}
     /\ outcome.res.kind = "response"
     /\ outcome.res.status = 401
     /\ outcome.res.needsAuth)
    => outcome.res.authUrl

\* in this step a disconnect of the tenant is reported successful
DisconnectSucceeds(t) ==
  /\ outcome'.tenant = t
  /\ \/ outcome'.path = "disconnectTelegram" /\ outcome'.res.kind = "return"
     \/ outcome'.path = "telegramControllerDisconnect" /\ outcome'.res.status = 200

\* C30: when a disconnect of a tenant is reported successful, the chat id
\* of the tenant's telegram_users row (the row of the tenant, or the row
\* linked to it) no longer resolves to any row.
C30_DisconnectClearsChannelLink ==
  [][\A t \in TenantIds :
       DisconnectSucceeds(t)
         => \A u \in telegram_users :
              (u.id = t \/ u.user_id = t)
                => {v \in telegram_users' : v.chat = u.chat} = {}]_vars

\* C31: when POST /calendars has made the calendar call, the tenant whose
\* credential it loaded is the tenant the chat id of the request resolves to.
C31_CredentialIsThatOfResolvedTenant ==
  (outcome.path = "postCalendars" /\ outcome.res.status \in {201, 500})
    => \E u \in GetUserByTelegramId(outcome.chat) : u.id = outcome.tenant

InitiateEnds(p) ==
  pc[p] = "idle" /\ outcome'.by = p /\ outcome'.path = "generateTelegramOAuthUrl"

\* C33: generateTelegramOAuthUrl that returns a URL has stored one session,
\* with the chat and the token of the state it returns and expires_at 30
\* minutes ahead; when it throws, no session is stored; and a callback whose
\* state names a stored session that has not yet expired passes the session
\* check.
C33_InitiateStoresTheSessionItReturns ==
  [][\A p \in Procs :
       /\ (InitiateEnds(p) /\ outcome'.res.kind = "return")
            => /\ telegram_sessions' = telegram_sessions \cup
                    {[token |-> outcome'.session, chat |-> outcome'.chat,
                      expires_at |-> now + SessionLifeMin, user_id |-> Null]}
               /\ Cardinality(telegram_sessions') = Cardinality(telegram_sessions) + 1
       /\ (InitiateEnds(p) /\ outcome'.res.kind # "return")
            => /\ outcome'.res.kind = "throw"
               /\ UNCHANGED telegram_sessions
       /\ (CallbackArrives(p)
             /\ \E x \in telegram_sessions :
                  /\ x.token = ArrivingSession(p)
                  /\ x.chat = ArrivingChat(p)
                  /\ now < x.expires_at)
            => pc'[p] = "exchange"]_vars

\* a callback with the state of a session of chat 2 has passed the session
\* check before the session expired
C33_Witness ==
  /\ pc["p1"] = "exchange"
  /\ cb["p1"].chat = 2
  /\ \E x \in telegram_sessions :
       /\ x.token = cb["p1"].session
       /\ x.chat = cb["p1"].chat
       /\ x.expires_at = 1 + SessionLifeMin
       /\ now < x.expires_at

\* in this step a request of p is at identity resolution: the token of
\* authenticateToken is verified or its user looked up, or a chat id is
\* looked up
ResolvesIdentity(p) ==
  \/ pc[p] = "idle" /\ pc'[p] = "lookup"
  \/ /\ outcome'.by = p
     /\ outcome'.path \in {"authenticateToken", "authTelegramAuthMiddleware",
                           "telegramAuthMiddleware"}

\* C34: a step of identity resolution, by token or by chat id, ending in
\* success or in failure, leaves the users rows, the channel links, the
\* stored credentials and the pending sessions as they were.
C34_IdentityResolutionWritesNothing ==
  [][\A p \in Procs :
       ResolvesIdentity(p)
         => UNCHANGED <<users, telegram_users, tenant_tokens, telegram_sessions>>]_vars

\* a token has resolved to the direct tenant, both requests having brought
\* one, with the stores holding rows
C34_Witness ==
  /\ outcome.path = "authenticateToken"
  /\ outcome.res = Proceed
  /\ outcome.tenant = DirectTenant
  /\ users[DirectTenant].exists
  /\ telegram_sessions # {}
  /\ bearer["p1"].present /\ bearer["p2"].present

\* neither store has an access token for tenant t
NoCredentialLeft(t) ==
  /\ ~HasCredential(tenant_tokens[t])
  /\ ~HasCredential(users[t])

\* C40: a disconnectGoogle that failed to clear a store ends in a throw, so
\* one that reports success has left neither store with a credential of the
\* tenant; and, no handshake being run, a tenant with no credential in
\* either store has none after any step.
C40_DisconnectLeavesNoCredential ==
  [][/\ (outcome'.path = "disconnectGoogle" /\ ~NoCredentialLeft(DirectTenant)')
          => outcome'.res.kind = "throw"
     /\ NoCredentialLeft(DirectTenant) => NoCredentialLeft(DirectTenant)']_vars

\* in this step the request p handles moves on or ends
Acts(p) ==
  pc'[p] # pc[p] \/ pending'[p] # pending[p] \/ outcome'.by = p

\* the tenant the request of p is for: the one an acquire or a direct
\* handshake was called with, the one the callback resolved its chat to, or
\* the one the operation that ends in this step was called with
TenantsOf(p) == {reqTenant[p], cb[p].user, outcome'.tenant}

\* the session a callback of p is for: the one its state names
SessionOf(p, x) ==
  \/ x.chat = cb[p].chat /\ x.token = cb[p].session
  \/ x.chat = ArrivingChat(p) /\ x.token = ArrivingSession(p)

\* the request of p is a callback of the channel handshake
InCallback(p) ==
  CallbackArrives(p) \/ pc[p] \in {"exchange", "userinfo", "link", "mark", "store"}

\* C35: a step of an acquire, a refresh, a handshake or a disconnect changes
\* the stored credential of no tenant but the one it is performed for, and
\* a step of a callback changes no session but the one its state names.
C35_WritesAreScopedToTheirTenant ==
  [][\A p \in Procs :
       Acts(p)
         => /\ \A t \in TenantIds \ TenantsOf(p) :
                 /\ tenant_tokens'[t] = tenant_tokens[t]
                 /\ users'[t] = users[t]
            /\ InCallback(p)
                 => {x \in telegram_sessions' : ~SessionOf(p, x)}
                      = {x \in telegram_sessions : ~SessionOf(p, x)}]_vars

\* a callback for the session of chat 1 has ended in success: the session is
\* marked and tenant 2 has the new credential, while the session of chat 2
\* and the credential of tenant 1 are as they were
C35_Witness ==
  /\ outcome.path = "handleTelegramOAuthCallback"
  /\ outcome.res.kind = "return"
  /\ outcome.tenant = TelegramTenant
  /\ tenant_tokens[TelegramTenant].access = 3
  /\ tenant_tokens[DirectTenant] = Row(1, 1, 6)
  /\ NewSession(2, 2, 2) \in telegram_sessions
  /\ \E x \in telegram_sessions : x.token = 1 /\ x.user_id = TelegramTenant

\* in this step cleanExpiredSessions ends on p
SweepEnds(p) ==
  pc[p] = "idle" /\ outcome'.by = p /\ outcome'.path = "cleanExpiredSessions"

\* C36: a sweep whose delete succeeds leaves in the table exactly the
\* sessions whose expires_at is not before now; no sweep changes or removes
\* a session that has not expired, so that every session a callback would
\* have been let through with before the sweep lets it through after it.
C36_SweepDeletesOnlyExpiredSessions ==
  [][\A p \in Procs :
       SweepEnds(p)
         => /\ outcome'.res.error = "cleaned"
                 => telegram_sessions' =
                      {x \in telegram_sessions : x.expires_at >= now}
            /\ telegram_sessions' \subseteq telegram_sessions
            /\ \A x \in telegram_sessions :
                 x.expires_at >= now => x \in telegram_sessions'
            /\ \A chat \in Chats, token \in 1..(MaxSessions + 1) :
                 ValidSessions(chat, token, now)' = ValidSessions(chat, token, now)]_vars

\* a callback has passed the session check with the session initiate
\* stored for chat 1, after a sweep has deleted the expired session
C36_Witness ==
  /\ pc["p1"] = "exchange"
  /\ cb["p1"].chat = 1
  /\ OldSession \notin telegram_sessions
  /\ \E x \in telegram_sessions :
       /\ x.token = cb["p1"].session
       /\ x.chat = 1
       /\ now < x.expires_at

\* an acquire for the direct tenant has just ended in success, by either
\* path
AcquiredForDirectTenant ==
  /\ outcome.tenant = DirectTenant
  /\ \/ outcome.path = "checkGoogleTokenValidity" /\ outcome.res = Proceed
     \/ outcome.path = "getUserWithGoogleToken" /\ outcome.res = Return

\* C37: when an acquire for the direct tenant has ended in success, having
\* refreshed or not, the users row and the tenant_tokens row of the tenant
\* hold the same access token, refresh token and expiry.
C37_BothCopiesAgree ==
  AcquiredForDirectTenant
    => /\ users[DirectTenant].access = tenant_tokens[DirectTenant].access
       /\ users[DirectTenant].refresh = tenant_tokens[DirectTenant].refresh
       /\ users[DirectTenant].expiry = tenant_tokens[DirectTenant].expiry

\* C38: the handler of a request whose middleware refreshed the credential
\* loads the access token that refresh obtained; and a request whose
\* middleware could not persist the refreshed credential is answered by the
\* middleware and never reaches the handler.
C38_HandlerLoadsTheRefreshedToken ==
  [][\A p \in Procs :
       /\ (pc[p] = "handler" /\ pc'[p] = "idle")
            => /\ outcome'.res.kind = "return"
               /\ tenant_tokens[reqTenant[p]].access = newTokens[p].access
       /\ (pc[p] = "update" /\ pc'[p] = "handler")
            => tenant_tokens'[reqTenant[p]].access = newTokens[p].access
       /\ (pc[p] = "update" /\ pc'[p] # "update"
              /\ tenant_tokens'[reqTenant[p]].access # newTokens[p].access)
            => pc'[p] = "idle" /\ outcome'.res.status = 401]_vars

\* C39: a handshake whose code exchange returned no refresh token leaves the
\* refresh token a store holds for the tenant as it was: the users row and
\* the tenant_tokens row in the direct flow, the tenant_tokens row in the
\* channel flow
C39_RehandshakeKeepsTheRefreshToken ==
  [][\A p \in Procs :
       /\ (pc[p] = "profile" /\ pc'[p] = "tokens"
              /\ newTokens[p].refresh = Null
              /\ users[reqTenant[p]].refresh # Null)
            => users'[reqTenant[p]].refresh = users[reqTenant[p]].refresh
       /\ (pc[p] = "tokens" /\ pc'[p] = "idle"
              /\ newTokens[p].refresh = Null
              /\ tenant_tokens[reqTenant[p]].refresh # Null)
            => tenant_tokens'[reqTenant[p]].refresh
                 = tenant_tokens[reqTenant[p]].refresh
       /\ (pc[p] = "store" /\ pc'[p] = "idle"
              /\ cb[p].tokens.refresh = Null
              /\ tenant_tokens[cb[p].user].refresh # Null)
            => tenant_tokens'[cb[p].user].refresh
                 = tenant_tokens[cb[p].user].refresh]_vars

====
